---- MODULE Spec2Model ----
(***************************************************************************)
(* A model of AJAXForm (src/index.js): one bound <form>, the process-wide  *)
(* static configuration, and up to MaxSubmissions overlapping runs of the  *)
(* asynchronous submit() routine.  Every action is one event-loop turn:    *)
(* the code that runs synchronously between two awaits.                    *)
(***************************************************************************)
EXTENDS Integers, Sequences, FiniteSets, TLC

(***************************************************************************)
(* Bounds                                                                  *)
(***************************************************************************)
MaxSubmissions == 2
MaxMessages == 2
MaxStaticChanges == 1

(***************************************************************************)
(* Values                                                                  *)
(***************************************************************************)
NULL == "null"
\* the absent value of a variable that otherwise holds an object
Nothing == [ nothing |-> TRUE ]
\* a request without a body
NoBody == Nothing

Submissions == 1..MaxSubmissions

\* the values HTMLFormElement.method can take (the attribute is an
\* enumerated one: anything else than post/dialog reads back as "get")
FormMethods == {"get", "post", "dialog"}

\* the data-credentials-mode attribute: absent (NULL) or present
CredentialsOverrides == {NULL, "include"}

CredentialsModes == {"same-origin", "include", "omit"}

\* list-like elements a form may contain
ListElements == {"ul", "ol"}

\* what the overriding afterSubmit may return; the default one returns true
HookResults == {"true", "false", "undefined"}

\* !v is false
Truthy(v) == v \in {"true"}

\* what the stub afterSubmit of the base class returns
afterSubmit == "true"

\* HTTP statuses of a response the fetch resolves with
Statuses == {200, 500}

\* messages an endpoint may send
Messages ==
    { [code |-> "SUCCESS_SAVED", message |-> "Saved"],
      [code |-> "VALIDATION_NAME", message |-> "Required"] }

RECURSIVE SeqsUpTo(_, _)
SeqsUpTo(S, n) ==
    IF n = 0 THEN { <<>> }
    ELSE LET shorter == SeqsUpTo(S, n - 1)
         IN  shorter \cup { Append(s, x) : s \in { t \in shorter : Len(t) = n - 1 }, x \in S }

\* the JSON bodies an endpoint may answer with
ParsedResponses ==
    [ success : BOOLEAN,
      info : [ next : {NULL, "/done"} ],
      messages : SeqsUpTo(Messages, MaxMessages) ]

\* children a message list may hold before any submission
InitialChildren ==
    { <<>>, << [text |-> "stale", class |-> "error"] >> }

(***************************************************************************)
(* Static configuration (src/index.js:23-60)                               *)
(***************************************************************************)
\* a regular expression /<literal>(.*)/ is kept as its literal
selector == "form.ajax, form[data-ajax=\"true\"]"
defaultCredentialsMode == "same-origin"
messageListSelector == "ul"
successCodeRegExp == "SUCCESS_"
successCSSClass == "success"
errorCSSClass == "error"

DefaultStatic ==
    [ selector |-> selector,
      defaultCredentialsMode |-> defaultCredentialsMode,
      messageListSelector |-> messageListSelector,
      successCodeRegExp |-> successCodeRegExp,
      successCSSClass |-> successCSSClass,
      errorCSSClass |-> errorCSSClass ]

\* the values a host application may assign to a static member
StaticValues ==
    [ defaultCredentialsMode |-> CredentialsModes,
      messageListSelector |-> ListElements,
      successCodeRegExp |-> {"SUCCESS_", "OK_"},
      successCSSClass |-> {"success", "good"},
      errorCSSClass |-> {"error", "bad"} ]

VARIABLES
    static,         \* the static members of the AJAXForm class
    staticChanges,  \* number of assignments made to static members
    form,           \* the <form> element: method, action, dataset, fields, lists
    hook,           \* "default": the stub afterSubmit; "override": a subclass's
    messageList,    \* this.messageList: an element of the form, or NULL
    children,       \* the child items of the messageList element
    location,       \* window.location
    sub,            \* the runs of submit(): position and locals of each
    lastRender,     \* the submission that reached the render step last, 0 if none
    finished        \* the call of submit() that ended last: what it had and found

vars == << static, staticChanges, form, hook, messageList, children, location, sub, lastRender, finished >>

(***************************************************************************)
(* Helpers modelling the browser and the imported classes                  *)
(***************************************************************************)
\* form.querySelector(sel): the first matching descendant, or null
querySelector(f, sel) == IF sel \in f.lists THEN sel ELSE NULL

\* RegExp.prototype.test for an unanchored /<literal>(.*)/
RegExpTest(literal, str) ==
    \E i \in 1..(Len(str) - Len(literal) + 1) :
        SubSeq(str, i, i + Len(literal) - 1) = literal

\* application/x-www-form-urlencoded serialisation of one character
EncodeChar(c) ==
    CASE c = " " -> "+"
      [] c = "&" -> "%26"
      [] c = "=" -> "%3D"
      [] c = "+" -> "%2B"
      [] c = "?" -> "%3F"
      [] OTHER -> c

RECURSIVE EncodeString(_)
EncodeString(s) ==
    IF Len(s) = 0 THEN ""
    ELSE EncodeChar(SubSeq(s, 1, 1)) \o EncodeString(SubSeq(s, 2, Len(s)))

\* URLSearchParams.prototype.toString
RECURSIVE URLSearchParamsToString(_)
URLSearchParamsToString(entries) ==
    IF entries = <<>> THEN ""
    ELSE LET e == Head(entries)
             rest == Tail(entries)
         IN  EncodeString(e[1]) \o "=" \o EncodeString(e[2])
               \o (IF rest = <<>> THEN "" ELSE "&" \o URLSearchParamsToString(rest))

\* new FormData(form): one entry per named field, in document order
FormData(f) == f.fields

\* new APIResponse(parsedResponse)
APIResponse(parsed) ==
    [ success |-> parsed.success, info |-> parsed.info, messages |-> parsed.messages ]

\* new APIResponse()
EmptyAPIResponse ==
    [ success |-> FALSE, info |-> [ next |-> NULL ], messages |-> <<>> ]

\* response.addMessage(message)
addMessage(response, message) ==
    [ response EXCEPT !.messages = Append(@, message) ]

\* removeAllChildren(element)
removeAllChildren(kids) == <<>>

(***************************************************************************)
(* The pieces of submit() (src/index.js:121-219)                           *)
(***************************************************************************)
\* the override attribute is not looked at
Credentials_defaultOnly(f, st) == st.defaultCredentialsMode

\* credentials: this.form.dataset.credentialsMode ?? defaultCredentialsMode
Credentials(f, st) ==
    IF f.dataset.credentialsMode /= NULL
    THEN f.dataset.credentialsMode
    ELSE st.defaultCredentialsMode

\* the POST branch given the URL of the GET branch
FetchCall_postQuery(f, st, formData) ==
    IF f.method = "get"
    THEN [ url |-> f.action \o "?" \o URLSearchParamsToString(formData),
           credentials |-> Credentials(f, st),
           method |-> "GET",
           body |-> NoBody ]
    ELSE IF f.method = "post"
    THEN [ url |-> f.action \o "?" \o URLSearchParamsToString(formData),
           credentials |-> Credentials(f, st),
           method |-> "POST",
           body |-> [ formData |-> formData ] ]
    ELSE Nothing

\* the arguments of the fetch call the try block makes, Nothing when it makes none
FetchCall(f, st, formData) ==
    IF f.method = "get"
    THEN [ url |-> f.action \o "?" \o URLSearchParamsToString(formData),
           credentials |-> Credentials(f, st),
           method |-> "GET",
           body |-> NoBody ]
    ELSE IF f.method = "post"
    THEN [ url |-> f.action,
           credentials |-> Credentials(f, st),
           method |-> "POST",
           body |-> [ formData |-> formData ] ]
    ELSE Nothing

ErrorMessage == "Failed to contact the API endpoint used by this form. Please try again later."

\* the catch block without its addMessage call
CatchResponse_noMessage == EmptyAPIResponse

\* the response the catch block builds
CatchResponse ==
    addMessage(EmptyAPIResponse, [ code |-> "API_ERROR", message |-> ErrorMessage ])

\* a strict comparison, if (shouldContinue === false), in place of the negation
Stops_strict(shouldContinue) == shouldContinue = "false"

\* if (!shouldContinue) return;
Stops(shouldContinue) == ~Truthy(shouldContinue)

\* the test without its first conjunct
ProceedsToNextPage_anyNext(response) ==
    response.info.next /= NULL

\* response.success && response.info.next != null
ProceedsToNextPage(response) ==
    response.success /\ response.info.next /= NULL

\* the pattern and the classes as they were when the instance was made
MessageItem_cached(st, message) ==
    [ class |-> IF RegExpTest(DefaultStatic.successCodeRegExp, message.code)
                THEN DefaultStatic.successCSSClass
                ELSE DefaultStatic.errorCSSClass,
      text |-> "[" \o message.code \o "] " \o message.message ]

\* the <li> appended for one message
MessageItem(st, message) ==
    [ class |-> IF RegExpTest(st.successCodeRegExp, message.code)
                THEN st.successCSSClass
                ELSE st.errorCSSClass,
      text |-> "[" \o message.code \o "] " \o message.message ]

\* each <li> inserted before the others instead of appended
RECURSIVE AppendMessages_prepend(_, _, _)
AppendMessages_prepend(kids, st, messages) ==
    IF messages = <<>> THEN kids
    ELSE AppendMessages_prepend(<< MessageItem(st, Head(messages)) >> \o kids, st, Tail(messages))

RECURSIVE AppendMessages(_, _, _)
AppendMessages(kids, st, messages) ==
    IF messages = <<>> THEN kids
    ELSE AppendMessages(Append(kids, MessageItem(st, Head(messages))), st, Tail(messages))

\* the body without its removeAllChildren call
ShowResponseMessages_noClear(kids, st, response) ==
    AppendMessages(kids, st, response.messages)

\* a first render wins: nothing is shown in a list that already shows messages
ShowResponseMessages_firstWins(kids, st, response) ==
    IF kids \in { <<>>, << [text |-> "stale", class |-> "error"] >> }
    THEN AppendMessages(removeAllChildren(kids), st, response.messages)
    ELSE kids

\* only the first child removed, where removeAllChildren removes them all
ShowResponseMessages_removesFirst(kids, st, response) ==
    AppendMessages(IF kids = <<>> THEN kids ELSE Tail(kids), st, response.messages)

\* the loop left after its first message, as if it awaited between two
ShowResponseMessages_firstOnly(kids, st, response) ==
    AppendMessages(removeAllChildren(kids), st,
                   IF response.messages = <<>> THEN <<>> ELSE << Head(response.messages) >>)

\* the body of if (this.messageList != null)
ShowResponseMessages(kids, st, response) ==
    AppendMessages(removeAllChildren(kids), st, response.messages)

\* the navigation branch without its return: the messages are shown as well
AfterHook_noReturn(response, shouldContinue, ml, kids, loc, st) ==
    IF Stops(shouldContinue)
    THEN [ outcome |-> "stopped", location |-> loc, children |-> kids ]
    ELSE IF ProceedsToNextPage(response)
    THEN [ outcome |-> "navigated", location |-> response.info.next,
           children |-> IF ml /= NULL
                        THEN ShowResponseMessages(kids, st, response)
                        ELSE kids ]
    ELSE IF ml /= NULL
    THEN [ outcome |-> "rendered", location |-> loc,
           children |-> ShowResponseMessages(kids, st, response) ]
    ELSE [ outcome |-> "dropped", location |-> loc, children |-> kids ]

\* everything submit() does once afterSubmit has returned shouldContinue
AfterHook(response, shouldContinue, ml, kids, loc, st) ==
    IF Stops(shouldContinue)
    THEN [ outcome |-> "stopped", location |-> loc, children |-> kids ]
    ELSE IF ProceedsToNextPage(response)
    THEN [ outcome |-> "navigated", location |-> response.info.next, children |-> kids ]
    ELSE IF ml /= NULL
    THEN [ outcome |-> "rendered", location |-> loc,
           children |-> ShowResponseMessages(kids, st, response) ]
    ELSE [ outcome |-> "dropped", location |-> loc, children |-> kids ]

(***************************************************************************)
(* Initial state: the form has been constructed with the default statics   *)
(***************************************************************************)
Forms ==
    [ method : FormMethods,
      action : {"/search"},
      dataset : [ credentialsMode : CredentialsOverrides ],
      fields : { << <<"q", "a b">>, <<"n", "1&2">> >> },
      lists : { {"ul", "ol"}, {"ol"} } ]

IdleSubmission ==
    [ pc |-> "idle",
      defaultPrevented |-> FALSE,
      request |-> Nothing,
      rawResponse |-> Nothing,
      response |-> Nothing,
      hookCalls |-> 0,
      hookArg |-> Nothing,
      steps |-> <<>>,
      outcome |-> "none" ]

Init ==
    /\ static = DefaultStatic
    /\ staticChanges = 0
    /\ form \in Forms
    /\ hook \in {"default", "override"}
    /\ messageList = querySelector(form, static.messageListSelector)
    /\ children \in (IF messageList = NULL THEN { <<>> } ELSE InitialChildren)
    /\ location = "/page"
    /\ sub = [ i \in Submissions |-> IdleSubmission ]
    /\ lastRender = 0
    /\ finished = Nothing

(***************************************************************************)
(* Actions                                                                 *)
(***************************************************************************)
\* afterSubmit called without its argument
TryCompletes_noArgument(s, parsed) ==
    [ s EXCEPT !.pc = "afterSubmit",
               !.response = APIResponse(parsed),
               !.hookCalls = @ + 1,
               !.hookArg = Nothing,
               !.steps = @ \o << "wrap", "afterSubmit" >> ]

\* the try block completes: response = new APIResponse(parsedResponse), and
\* submit() calls this.afterSubmit(response), which it then awaits
TryCompletes(s, parsed) ==
    LET response == APIResponse(parsed)
    IN  [ s EXCEPT !.pc = "afterSubmit",
                   !.response = response,
                   !.hookCalls = @ + 1,
                   !.hookArg = response,
                   !.steps = @ \o << "wrap", "afterSubmit" >> ]

\* submit() without the try/catch: the error leaves submit()
CatchRuns_propagates(s) ==
    [ s EXCEPT !.pc = "done",
               !.outcome = "rejected",
               !.request = Nothing,
               !.rawResponse = Nothing,
               !.steps = @ \o << "threw" >> ]

\* the try block throws: the catch block builds the response, and submit()
\* calls this.afterSubmit(response), which it then awaits
CatchRuns(s) ==
    LET response == CatchResponse
    IN  [ s EXCEPT !.pc = "afterSubmit",
                   !.response = response,
                   !.hookCalls = @ + 1,
                   !.hookArg = response,
                   !.steps = @ \o << "catch", "afterSubmit" >> ]

\* submit() does its last steps and its promise stays pending
Finished_neverSettles(s, outcome, lastSteps) ==
    [ s EXCEPT !.pc = "pending",
               !.steps = @ \o lastSteps ]

\* submit() returns or rejects: its locals are gone
Finished(s, outcome, lastSteps) ==
    [ s EXCEPT !.pc = "done",
               !.outcome = outcome,
               !.request = Nothing,
               !.rawResponse = Nothing,
               !.response = Nothing,
               !.hookArg = Nothing,
               !.steps = @ \o lastSteps ]

\* the record of the call that ends: the response it had, the children it
\* found in the message list and what afterSubmit did
Ended(i, shouldContinue) ==
    [ sub |-> i,
      response |-> sub[i].response,
      before |-> children,
      shouldContinue |-> shouldContinue ]

\* a listener with an in-flight guard: the event is ignored while another
\* submission of the form has not ended
SubmitEvent_guarded(i) ==
    /\ sub[i].pc = "idle"
    /\ \A j \in Submissions : j < i => sub[j].pc = "done"
    /\ LET formData == FormData(form)
           call == FetchCall(form, static, formData)
           started == [ sub[i] EXCEPT !.defaultPrevented = TRUE,
                                      !.steps = << "preventDefault" >> ]
       IN  sub' = [ sub EXCEPT ![i] =
                      IF call /= Nothing
                      THEN [ started EXCEPT !.pc = "fetch",
                                            !.request = call,
                                            !.steps = @ \o << "fetch" >> ]
                      ELSE CatchRuns(started) ]
    /\ UNCHANGED << static, staticChanges, form, hook, messageList, children, location, lastRender, finished >>

\* a listener that calls preventDefault only when a request is to be made
SubmitEvent_preventIfRequest(i) ==
    /\ sub[i].pc = "idle"
    /\ \A j \in Submissions : j < i => sub[j].pc /= "idle"
    /\ LET formData == FormData(form)
           call == FetchCall(form, static, formData)
       IN  sub' = [ sub EXCEPT ![i] =
                      IF call /= Nothing
                      THEN [ sub[i] EXCEPT !.defaultPrevented = TRUE,
                                           !.pc = "fetch",
                                           !.request = call,
                                           !.steps = << "preventDefault", "fetch" >> ]
                      ELSE CatchRuns(sub[i]) ]
    /\ UNCHANGED << static, staticChanges, form, hook, messageList, children, location, lastRender, finished >>

\* a submit event: the listener, then submit() up to its first await
SubmitEvent(i) ==
    /\ sub[i].pc = "idle"
    /\ \A j \in Submissions : j < i => sub[j].pc /= "idle"
    /\ LET formData == FormData(form)
           call == FetchCall(form, static, formData)
           started == [ sub[i] EXCEPT !.defaultPrevented = TRUE,
                                      !.steps = << "preventDefault" >> ]
       IN  sub' = [ sub EXCEPT ![i] =
                      IF call /= Nothing
                      THEN [ started EXCEPT !.pc = "fetch",
                                            !.request = call,
                                            !.steps = @ \o << "fetch" >> ]
                      ELSE \* rawResponse is undefined: rawResponse.json() throws
                           CatchRuns(started) ]
    /\ UNCHANGED << static, staticChanges, form, hook, messageList, children, location, lastRender, finished >>

\* the fetch resolves with a response of some status; submit() calls json()
FetchResolve(i) ==
    /\ sub[i].pc = "fetch"
    /\ \E status \in Statuses :
         sub' = [ sub EXCEPT ![i].pc = "json",
                             ![i].rawResponse = [ status |-> status ],
                             ![i].steps = @ \o << "json" >> ]
    /\ UNCHANGED << static, staticChanges, form, hook, messageList, children, location, lastRender, finished >>

\* the fetch rejects; the catch block runs and afterSubmit is called
FetchReject(i) ==
    /\ sub[i].pc = "fetch"
    /\ sub' = [ sub EXCEPT ![i] = CatchRuns(sub[i]) ]
    /\ UNCHANGED << static, staticChanges, form, hook, messageList, children, location, lastRender, finished >>

\* the body parses as JSON; it is wrapped and afterSubmit is called
JsonResolve(i) ==
    /\ sub[i].pc = "json"
    /\ \E parsedResponse \in ParsedResponses :
         sub' = [ sub EXCEPT ![i] = TryCompletes(sub[i], parsedResponse) ]
    /\ UNCHANGED << static, staticChanges, form, hook, messageList, children, location, lastRender, finished >>

\* the body is not valid JSON; the catch block runs and afterSubmit is called
JsonReject(i) ==
    /\ sub[i].pc = "json"
    /\ sub' = [ sub EXCEPT ![i] = CatchRuns(sub[i]) ]
    /\ UNCHANGED << static, staticChanges, form, hook, messageList, children, location, lastRender, finished >>

\* submit() looks the message list up again before it shows the messages
AfterSubmitReturn_requery(i) ==
    /\ sub[i].pc = "afterSubmit"
    /\ \E shouldContinue \in (IF hook = "default" THEN { afterSubmit } ELSE HookResults) :
         LET ml == querySelector(form, static.messageListSelector)
             r == AfterHook(sub[i].response, shouldContinue, ml, children, location, static)
         IN  /\ messageList' = ml
             /\ location' = r.location
             /\ children' = r.children
             /\ lastRender' = IF r.outcome = "rendered" THEN i ELSE lastRender
             /\ finished' = Ended(i, shouldContinue)
             /\ sub' = [ sub EXCEPT ![i] =
                           Finished(sub[i], r.outcome,
                                    << "returned" >> \o
                                      (IF r.outcome \in {"navigated", "rendered"}
                                       THEN << r.outcome >> ELSE <<>>)) ]
    /\ UNCHANGED << static, staticChanges, form, hook >>

\* afterSubmit returns; submit() runs to its end
AfterSubmitReturn(i) ==
    /\ sub[i].pc = "afterSubmit"
    /\ \E shouldContinue \in (IF hook = "default" THEN { afterSubmit } ELSE HookResults) :
         LET r == AfterHook(sub[i].response, shouldContinue, messageList, children, location, static)
         IN  /\ location' = r.location
             /\ children' = r.children
             /\ lastRender' = IF r.outcome = "rendered" THEN i ELSE lastRender
             /\ finished' = Ended(i, shouldContinue)
             /\ sub' = [ sub EXCEPT ![i] =
                           Finished(sub[i], r.outcome,
                                    << "returned" >> \o
                                      (IF r.outcome \in {"navigated", "rendered"}
                                       THEN << r.outcome >> ELSE <<>>)) ]
    /\ UNCHANGED << static, staticChanges, form, hook, messageList >>

\* the error of afterSubmit is caught and the default handling goes on
AfterSubmitThrow_caught(i) ==
    /\ sub[i].pc = "afterSubmit"
    /\ hook = "override"
    /\ LET r == AfterHook(sub[i].response, "true", messageList, children, location, static)
       IN  /\ location' = r.location
           /\ children' = r.children
           /\ lastRender' = IF r.outcome = "rendered" THEN i ELSE lastRender
           /\ finished' = Ended(i, "threw")
           /\ sub' = [ sub EXCEPT ![i] = Finished(sub[i], r.outcome, << "threw" >>) ]
    /\ UNCHANGED << static, staticChanges, form, hook, messageList >>

\* an overriding afterSubmit throws; submit() rejects
AfterSubmitThrow(i) ==
    /\ sub[i].pc = "afterSubmit"
    /\ hook = "override"
    /\ sub' = [ sub EXCEPT ![i] = Finished(sub[i], "rejected", << "threw" >>) ]
    /\ finished' = Ended(i, "threw")
    /\ UNCHANGED << static, staticChanges, form, hook, messageList, children, location, lastRender >>

\* the host application assigns a static member
SetStatic ==
    /\ staticChanges < MaxStaticChanges
    /\ \E member \in DOMAIN StaticValues :
         \E value \in StaticValues[member] :
            /\ value /= static[member]
            /\ static' = [ static EXCEPT ![member] = value ]
    /\ staticChanges' = staticChanges + 1
    /\ UNCHANGED << form, hook, messageList, children, location, sub, lastRender, finished >>

Next ==
    \/ \E i \in Submissions : SubmitEvent(i)
    \/ \E i \in Submissions : FetchResolve(i)
    \/ \E i \in Submissions : FetchReject(i)
    \/ \E i \in Submissions : JsonResolve(i)
    \/ \E i \in Submissions : JsonReject(i)
    \/ \E i \in Submissions : AfterSubmitReturn(i)
    \/ \E i \in Submissions : AfterSubmitThrow(i)

Spec == Init /\ [][Next]_vars

\* a submit event that comes once the submissions before it have ended
SubmitAfter(i) ==
    /\ \A j \in Submissions : j < i => sub[j].pc = "done"
    /\ SubmitEvent(i)

\* the host application assigns a static member while no submission is under way
SetStaticBetween ==
    /\ \A i \in Submissions : sub[i].pc \in {"idle", "done"}
    /\ SetStatic

\* submissions one after the other, with a host application that reassigns
\* static members before and between them
NextStatic ==
    \/ \E i \in Submissions : SubmitAfter(i)
    \/ \E i \in Submissions : FetchResolve(i)
    \/ \E i \in Submissions : FetchReject(i)
    \/ \E i \in Submissions : JsonResolve(i)
    \/ \E i \in Submissions : JsonReject(i)
    \/ \E i \in Submissions : AfterSubmitReturn(i)
    \/ \E i \in Submissions : AfterSubmitThrow(i)
    \/ SetStaticBetween

SpecStatic == Init /\ [][NextStatic]_vars

\* submissions one after the other, no change of the static members
NextInTurn ==
    \E i \in Submissions :
        \/ SubmitAfter(i)
        \/ FetchResolve(i)
        \/ FetchReject(i)
        \/ JsonResolve(i)
        \/ JsonReject(i)
        \/ AfterSubmitReturn(i)
        \/ AfterSubmitThrow(i)

\* the same, where every fetch, every json() and every afterSubmit settles
SpecSettling ==
    /\ Init
    /\ [][NextInTurn]_vars
    /\ \A i \in Submissions :
         /\ WF_vars(FetchResolve(i) \/ FetchReject(i))
         /\ WF_vars(JsonResolve(i) \/ JsonReject(i))
         /\ WF_vars(AfterSubmitReturn(i) \/ AfterSubmitThrow(i))

TypeOK ==
    /\ staticChanges \in 0..MaxStaticChanges
    /\ messageList \in ListElements \cup {NULL}
    /\ \A i \in Submissions :
         sub[i].pc \in {"idle", "fetch", "json", "afterSubmit", "done"}

(***************************************************************************)
(* Vocabulary of the properties                                            *)
(***************************************************************************)
FalsyResults == {"false", "undefined"}

\* submission i is past the call of afterSubmit and the hook returns in this step
HookReturns(i) ==
    /\ sub[i].pc = "afterSubmit"
    /\ sub'[i].pc = "done"
    /\ finished'.sub = i
    /\ finished'.shouldContinue /= "threw"

\* the catch block of submission i ran after its request had been issued:
\* the fetch rejected or the body was not valid JSON
TransportFailed(s) ==
    /\ \E k \in 1..Len(s.steps) : s.steps[k] = "fetch"
    /\ \E k \in 1..Len(s.steps) : s.steps[k] = "catch"

APIErrorText ==
    "[API_ERROR] Failed to contact the API endpoint used by this form. Please try again later."

\* C1: when afterSubmit returns a falsy value, that submission neither
\* navigates nor changes the children of the message list, whatever the
\* envelope it passed to the hook.
C1_FalsyHookStops ==
    [][ \A i \in Submissions :
          (HookReturns(i) /\ finished'.shouldContinue \in FalsyResults)
            => (location' = location /\ children' = children) ]_vars

\* a hook answered undefined to an envelope that asked for a navigation and
\* carried messages, and the page and the list are as they were
C1_Witness ==
    /\ finished /= Nothing
    /\ finished.shouldContinue = "undefined"
    /\ finished.response.success
    /\ finished.response.info.next /= NULL
    /\ finished.response.messages /= <<>>
    /\ sub[1].outcome = "stopped"
    /\ sub[2].pc = "idle"
    /\ messageList /= NULL
    /\ location = "/page"
    /\ children \in InitialChildren

\* C2: when the hook says continue and the envelope has success = true and a
\* non-null info.next, the browser goes to exactly info.next and the message
\* list is neither cleared nor appended to, even if the envelope has messages.
C2_NavigatesWithoutRendering ==
    [][ \A i \in Submissions :
          ( /\ HookReturns(i)
            /\ finished'.shouldContinue \notin FalsyResults
            /\ sub[i].response.success
            /\ sub[i].response.info.next /= NULL )
            => (location' = sub[i].response.info.next /\ children' = children) ]_vars

C2_Witness ==
    /\ finished /= Nothing
    /\ finished.shouldContinue = "true"
    /\ finished.response.success
    /\ finished.response.info.next = "/done"
    /\ finished.response.messages /= <<>>
    /\ sub[1].outcome = "navigated"
    /\ sub[2].pc = "idle"
    /\ messageList /= NULL
    /\ location = "/done"
    /\ children = << [text |-> "stale", class |-> "error"] >>

\* C3: with a message list and the default hook, a submission whose request
\* rejects or whose body is not valid JSON leaves the list with exactly one
\* item, "[API_ERROR] <fixed explanation>" in the error style, whatever the
\* list held before.
C3_FailureShowsOneError ==
    [][ \A i \in Submissions :
          ( /\ HookReturns(i)
            /\ hook = "default"
            /\ messageList /= NULL
            /\ TransportFailed(sub[i]) )
            => children' = << [ class |-> static.errorCSSClass, text |-> APIErrorText ] >> ]_vars

\* the list held a stale item, the only submission failed in transport, and
\* the list now holds the one error item
C3_Witness ==
    /\ hook = "default"
    /\ messageList /= NULL
    /\ sub[1].outcome = "rendered"
    /\ TransportFailed(sub[1])
    /\ sub[2].pc = "idle"
    /\ children = << [ class |-> "error", text |-> APIErrorText ] >>

\* C4: a transport or parse failure does not leave submit(): the step in
\* which the fetch or the parse fails ends with the submission awaiting
\* afterSubmit, called once with a response that has success = false and
\* exactly one message, of code API_ERROR.
C4_FailureBecomesEnvelope ==
    [][ \A i \in Submissions :
          (sub[i].pc \in {"fetch", "json"} /\ sub'[i] /= sub[i])
            => \/ sub[i].pc = "fetch" /\ sub'[i].pc = "json"
               \/ /\ sub'[i].pc = "afterSubmit"
                  /\ sub'[i].outcome = "none"
                  /\ sub'[i].hookCalls = 1
                  /\ sub'[i].hookArg = sub'[i].response
                  /\ TransportFailed(sub'[i]) =>
                       /\ sub'[i].response.success = FALSE
                       /\ Len(sub'[i].response.messages) = 1
                       /\ sub'[i].response.messages[1].code = "API_ERROR" ]_vars

\* a submission whose body did not parse awaits the hook with the envelope
C4_Witness ==
    \E i \in Submissions :
        /\ sub[i].pc = "afterSubmit"
        /\ sub[i].rawResponse /= Nothing
        /\ TransportFailed(sub[i])
        /\ sub[i].hookArg.messages[1].code = "API_ERROR"

\* C5: for a form whose method is not GET, submit() issues a request to the
\* form's action URL with the serialized fields as its body.
C5_NonGetPostsBody ==
    \A i \in Submissions :
        (form.method /= "get" /\ sub[i].pc /= "idle")
          => /\ \E k \in 1..Len(sub[i].steps) : sub[i].steps[k] = "fetch"
             /\ sub[i].pc = "fetch" =>
                  /\ sub[i].request.url = form.action
                  /\ sub[i].request.body = [ formData |-> FormData(form) ]

\* C6: the response of the catch block is built only when the fetch rejected
\* or the body did not parse; a response of any status whose body parsed is
\* wrapped from that body.
C6_SyntheticOnlyOnFailure ==
    \A i \in Submissions :
        /\ (\E k \in 1..Len(sub[i].steps) : sub[i].steps[k] = "catch")
             => TransportFailed(sub[i])
        /\ (sub[i].pc = "afterSubmit" /\ ~TransportFailed(sub[i]))
             => /\ sub[i].rawResponse /= Nothing
                /\ sub[i].response \in { APIResponse(p) : p \in ParsedResponses }

\* the part of C6 that is about the status: once the body of a response has
\* parsed, its status has no say in the envelope
Non2xxIsWrapped ==
    [][ \A i \in Submissions :
          (sub[i].pc = "json" /\ sub'[i].pc = "afterSubmit" /\ ~TransportFailed(sub'[i]))
            => sub'[i].response \in { APIResponse(p) : p \in ParsedResponses } ]_vars

\* C7: a submission navigates only if its envelope has success = true and a
\* non-null info.next and its hook returned a truthy value; a submission that
\* ended in a transport or parse failure does not navigate.
C7_NavigatesOnlyOnSuccessNext ==
    [][ \A i \in Submissions :
          ( /\ sub[i].pc /= "done" /\ sub'[i] /= sub[i]
            /\ (location' /= location \/ sub'[i].outcome = "navigated") )
            => /\ HookReturns(i)
               /\ finished'.shouldContinue \notin FalsyResults
               /\ sub[i].response.success
               /\ sub[i].response.info.next /= NULL
               /\ location' = sub[i].response.info.next
               /\ ~TransportFailed(sub[i]) ]_vars

C7_Witness ==
    /\ finished /= Nothing
    /\ finished.response.success
    /\ finished.response.info.next = "/done"
    /\ sub[finished.sub].outcome = "navigated"
    /\ location = "/done"

\* the rendering of an envelope's messages, as the properties state it
Rendering(messages, st) ==
    [ k \in 1..Len(messages) |->
        [ class |-> IF RegExpTest(st.successCodeRegExp, messages[k].code)
                    THEN st.successCSSClass
                    ELSE st.errorCSSClass,
          text |-> "[" \o messages[k].code \o "] " \o messages[k].message ] ]

\* submission i reaches the render step in this step
Renders(i) ==
    /\ HookReturns(i)
    /\ finished'.shouldContinue \notin FalsyResults
    /\ ~(sub[i].response.success /\ sub[i].response.info.next /= NULL)
    /\ messageList /= NULL

\* C8: when the default post-processing renders, the children of the message
\* list are afterwards exactly one item per message of the envelope, in the
\* envelope's order, each "[<code>] <message>", in the success style if the
\* code matches the success pattern and in the error style otherwise.
C8_RenderIsTheEnvelope ==
    [][ \A i \in Submissions :
          Renders(i) => children' = Rendering(sub[i].response.messages, static) ]_vars

\* two messages of different styles were rendered over a stale item
C8_Witness ==
    /\ finished /= Nothing
    /\ sub[finished.sub].outcome = "rendered"
    /\ finished.response.messages =
         << [code |-> "SUCCESS_SAVED", message |-> "Saved"],
            [code |-> "VALIDATION_NAME", message |-> "Required"] >>
    /\ children = << [ class |-> "success", text |-> "[SUCCESS_SAVED] Saved" ],
                     [ class |-> "error", text |-> "[VALIDATION_NAME] Required" ] >>

\* the place of a step in the order of submit()
StepRank(step) ==
    CASE step = "preventDefault" -> 0
      [] step = "fetch" -> 1
      [] step = "json" -> 2
      [] step \in {"wrap", "catch"} -> 3
      [] step = "afterSubmit" -> 4
      [] step \in {"returned", "threw"} -> 5
      [] step \in {"navigated", "rendered"} -> 6

InOrder(steps) ==
    \A k \in 1..(Len(steps) - 1) : StepRank(steps[k]) < StepRank(steps[k + 1])

Has(steps, step) == \E k \in 1..Len(steps) : steps[k] = step

\* C9: the steps of one submission happen in the order of the listing: the
\* request, then the envelope, then afterSubmit, called once and with that
\* envelope, and the navigation or the change of the message list only in
\* the step in which the hook returns.
C9_StepsInOrder ==
    /\ [](\A i \in Submissions :
            /\ InOrder(sub[i].steps)
            /\ sub[i].hookCalls = (IF Has(sub[i].steps, "afterSubmit") THEN 1 ELSE 0)
            /\ Has(sub[i].steps, "afterSubmit") =>
                 (Has(sub[i].steps, "wrap") \/ Has(sub[i].steps, "catch"))
            /\ sub[i].pc = "afterSubmit" =>
                 (sub[i].response /= Nothing /\ sub[i].hookArg = sub[i].response))
    /\ [][ (location' /= location \/ children' /= children)
             => \E i \in Submissions :
                   /\ HookReturns(i)
                   /\ Has(sub'[i].steps, "returned") ]_vars

\* a submission went through every step: request, parse, hook, render
C9_Witness ==
    \E i \in Submissions :
        sub[i].steps = << "preventDefault", "fetch", "json", "wrap",
                          "afterSubmit", "returned", "rendered" >>

\* C10: when two submissions overlap, the message list holds the rendering
\* of the envelope of the one that reached the render step last, whichever
\* was started first; a submission that ends without rendering leaves the
\* list as it is.
C10_LastRenderWins ==
    /\ []( (/\ finished /= Nothing
            /\ lastRender = finished.sub
            /\ sub[finished.sub].outcome = "rendered")
           => children = Rendering(finished.response.messages, static) )
    /\ [][ (\A i \in Submissions : ~Renders(i)) => children' = children ]_vars

\* the submission started first rendered last, over the rendering of the
\* one started second, and the list shows the first one's messages
C10_Witness ==
    /\ sub[1].outcome = "rendered"
    /\ sub[2].outcome = "rendered"
    /\ lastRender = 1
    /\ finished.sub = 1
    /\ finished.response.messages = << [code |-> "SUCCESS_SAVED", message |-> "Saved"] >>
    /\ children = << [ class |-> "success", text |-> "[SUCCESS_SAVED] Saved" ] >>

\* C11: the listener has no in-flight guard: while an earlier submission of
\* the form awaits its response a submit event can be handled, and handling
\* it starts a second submission that issues a request of its own and leaves
\* the earlier one as it is.
C11_NoInFlightGuard ==
    /\ [](\A i \in Submissions :
            ( /\ sub[i].pc = "idle"
              /\ \A j \in Submissions : j < i => sub[j].pc /= "idle" )
              => ENABLED SubmitEvent(i))
    /\ [][ \A i \in Submissions :
             ( /\ sub[i].pc = "idle" /\ sub'[i].pc /= "idle"
               /\ \E j \in Submissions : j /= i /\ sub[j].pc \in {"fetch", "json"} )
               => /\ sub'[i].pc = "fetch"
                  /\ sub'[i].request /= Nothing
                  /\ \A j \in Submissions : j /= i => sub'[j] = sub[j] ]_vars

\* two requests of the one form are outstanding
C11_Witness ==
    /\ sub[1].pc = "fetch" /\ sub[1].request /= Nothing
    /\ sub[2].pc = "fetch" /\ sub[2].request /= Nothing

\* C12: every submit event has its default action prevented, before
\* anything else of the submission happens and whatever its outcome.
C12_DefaultAlwaysPrevented ==
    \A i \in Submissions :
        sub[i].pc /= "idle"
          => /\ sub[i].defaultPrevented
             /\ Len(sub[i].steps) >= 1
             /\ sub[i].steps[1] = "preventDefault"
             /\ \A k \in 2..Len(sub[i].steps) : sub[i].steps[k] /= "preventDefault"

\* a submission that made no request and one the hook stopped: both prevented
C12_Witness ==
    /\ form.method = "dialog"
    /\ sub[1].outcome = "stopped" /\ sub[1].defaultPrevented
    /\ sub[2].outcome = "rendered" /\ sub[2].defaultPrevented

\* submission i is started in this step and issues a request
IssuesRequest(i) ==
    sub[i].pc = "idle" /\ sub'[i].pc = "fetch"

\* submission i gets past the hook and the navigation test in this step
ReachesMessages(i) ==
    /\ HookReturns(i)
    /\ finished'.shouldContinue \notin FalsyResults
    /\ ~(sub[i].response.success /\ sub[i].response.info.next /= NULL)

\* the static members whose value submit() reads when it uses it: the
\* default credentials mode at the fetch, the pattern and the two classes
\* at the render step
StaticsReadAtUse ==
    \A i \in Submissions :
        /\ (IssuesRequest(i) /\ form.dataset.credentialsMode = NULL)
             => sub'[i].request.credentials = static.defaultCredentialsMode
        /\ Renders(i) => children' = Rendering(sub[i].response.messages, static)

\* C13 as it was stated: every static member, the message-list selector
\* included, has at the next submission the effect of its current value.
C13_EveryStaticTakesEffect ==
    [][ /\ StaticsReadAtUse
        /\ \A i \in Submissions :
             ReachesMessages(i) =>
                LET target == querySelector(form, static.messageListSelector)
                IN  /\ target /= NULL => (sub'[i].outcome = "rendered" /\ messageList = target)
                    /\ target = NULL => (sub'[i].outcome = "dropped" /\ children' = children) ]_vars

\* C13, amended: the default credentials mode, the success pattern and the
\* two classes are read when they are used, so a change between two
\* submissions has its effect on the next one; the message-list selector is
\* read at construction only: a later change of it does not change where,
\* or whether, the messages are shown.
C13_StaticsButSelectorTakeEffect ==
    [][ /\ StaticsReadAtUse
        /\ \A i \in Submissions :
             ReachesMessages(i) =>
                LET target == querySelector(form, DefaultStatic.messageListSelector)
                IN  /\ messageList = target
                    /\ target /= NULL => sub'[i].outcome = "rendered"
                    /\ target = NULL => (sub'[i].outcome = "dropped" /\ children' = children) ]_vars

\* the error class was reassigned after the first submission had shown an
\* error, and the second submission shows its error in the new class
C13_Witness ==
    /\ staticChanges = 1
    /\ static.errorCSSClass = "bad"
    /\ sub[1].outcome = "rendered"
    /\ sub[2].outcome = "rendered"
    /\ finished.sub = 2
    /\ finished.before = << [ class |-> "error", text |-> "[VALIDATION_NAME] Required" ] >>
    /\ children = << [ class |-> "bad", text |-> "[VALIDATION_NAME] Required" ] >>

\* C14: no step reassigns the instance's form or its messageList: the
\* message list is the element found at construction, or absent as it was
\* then, whatever the message-list selector has become.
C14_ReferencesNeverReassigned ==
    [][ form' = form /\ messageList' = messageList ]_vars

\* the selector now matches another element of the form; the instance has
\* rendered into the list it found at construction
C14_Witness ==
    /\ static.messageListSelector = "ol"
    /\ querySelector(form, static.messageListSelector) = "ol"
    /\ messageList = "ul"
    /\ sub[1].outcome = "rendered"
    /\ sub[2].outcome = "rendered"

\* C17: the credentials mode of every request, GET or POST, is the form's
\* data-credentials-mode when the form has one and otherwise the default
\* credentials mode as the static member stands when the request is made.
C17_CredentialsResolution ==
    [][ \A i \in Submissions :
          IssuesRequest(i) =>
            /\ sub'[i].request.method \in {"GET", "POST"}
            /\ sub'[i].request.credentials =
                 (IF form.dataset.credentialsMode /= NULL
                  THEN form.dataset.credentialsMode
                  ELSE static.defaultCredentialsMode) ]_vars

\* the default was reassigned to omit; a form with the attribute still
\* asks for include
C17_Witness ==
    /\ static.defaultCredentialsMode = "omit"
    /\ form.dataset.credentialsMode = "include"
    /\ form.method = "post"
    /\ sub[1].pc = "done"
    /\ sub[2].pc = "fetch"
    /\ sub[2].request.credentials = "include"

\* C15: when an overriding afterSubmit throws, submit() does not catch it:
\* the call ends rejected, and that submission neither navigates nor changes
\* the message list.
C15_HookFailurePropagates ==
    [][ \A i \in Submissions :
          ( /\ sub[i].pc = "afterSubmit" /\ sub'[i].pc = "done"
            /\ finished'.sub = i /\ finished'.shouldContinue = "threw" )
            => /\ sub'[i].outcome = "rejected"
               /\ location' = location
               /\ children' = children ]_vars

\* the hook threw on an envelope that asked for a navigation and had messages
C15_Witness ==
    /\ finished /= Nothing
    /\ finished.shouldContinue = "threw"
    /\ finished.response.success
    /\ finished.response.info.next = "/done"
    /\ finished.response.messages /= <<>>
    /\ sub[finished.sub].outcome = "rejected"
    /\ messageList /= NULL
    /\ location = "/page"
    /\ children = finished.before

\* C16: a GET form asks for the action URL followed by "?" and the
\* URL-encoded fields, with method GET and no body; a POST form asks for
\* exactly the action URL, with method POST and all the fields as its body.
C16_RequestShape ==
    \A i \in Submissions :
        sub[i].pc = "fetch" =>
            /\ form.method = "get" =>
                 /\ sub[i].request.url = "/search?q=a+b&n=1%262"
                 /\ sub[i].request.method = "GET"
                 /\ sub[i].request.body = NoBody
            /\ form.method = "post" =>
                 /\ sub[i].request.url = "/search"
                 /\ sub[i].request.method = "POST"
                 /\ sub[i].request.body =
                      [ formData |-> << <<"q", "a b">>, <<"n", "1&2">> >> ]

\* a POST request is outstanding: the bare action URL and the fields as body
C16_Witness ==
    \E i \in Submissions :
        /\ form.method = "post"
        /\ sub[i].pc = "fetch"
        /\ sub[i].request.url = form.action
        /\ Len(sub[i].request.body.formData) = 2

\* C18: showing an envelope in a list that already shows that envelope
\* leaves the list as it is: the same items, order and styles, none twice.
C18_RenderIdempotent ==
    [][ \A i \in Submissions :
          (Renders(i) /\ children = Rendering(sub[i].response.messages, static))
            => children' = children ]_vars

\* two messages were shown by one submission and again by the next
C18_Witness ==
    /\ sub[1].outcome = "rendered"
    /\ sub[2].outcome = "rendered"
    /\ lastRender = finished.sub
    /\ Len(finished.response.messages) = 2
    /\ finished.before = Rendering(finished.response.messages, static)
    /\ children = finished.before

\* C19: the render step is one step: every step leaves the list as it is or
\* replaces its children by the whole rendering of the envelope of the one
\* submission whose hook returns in that step; before any render the list
\* has the children it had at first.
C19_RenderIsAtomic ==
    /\ [](lastRender = 0 => children \in InitialChildren)
    /\ [][ \/ children' = children
           \/ \E i \in Submissions :
                /\ Renders(i)
                /\ children' = Rendering(sub[i].response.messages, static)
                /\ \A j \in Submissions : j /= i => sub'[j] = sub[j] ]_vars

\* the submission started second rendered two messages last, over what the
\* first had rendered while the second was under way
C19_Witness ==
    /\ sub[1].outcome = "rendered"
    /\ sub[2].outcome = "rendered"
    /\ lastRender = 2
    /\ finished.sub = 2
    /\ Len(finished.before) = 1
    /\ Len(finished.response.messages) = 2
    /\ children = Rendering(finished.response.messages, static)

TerminalOutcomes == {"stopped", "rejected", "navigated", "rendered", "dropped"}

\* C20: a submission whose fetch, parse and hook each settle ends, in
\* exactly one of: stopped by the hook, hook failure propagated, navigated,
\* messages rendered, messages dropped; a submission whose request has not
\* settled has not called the hook and has had no effect.
C20_SettledSubmissionsEnd ==
    /\ \A i \in Submissions :
         (sub[i].pc /= "idle") ~> (sub[i].pc = "done" /\ sub[i].outcome \in TerminalOutcomes)
    /\ [](\A i \in Submissions :
            /\ sub[i].pc /= "done" => sub[i].outcome = "none"
            /\ sub[i].pc = "done" =>
                 /\ sub[i].outcome \in TerminalOutcomes
                 /\ Has(sub[i].steps, "navigated") <=> sub[i].outcome = "navigated"
                 /\ Has(sub[i].steps, "rendered") <=> sub[i].outcome = "rendered"
                 /\ Has(sub[i].steps, "threw") <=> sub[i].outcome = "rejected"
                 /\ sub[i].outcome = "dropped" => messageList = NULL
            /\ sub[i].pc = "fetch" =>
                 /\ sub[i].hookCalls = 0
                 /\ ~Has(sub[i].steps, "afterSubmit")
                 /\ ~Has(sub[i].steps, "returned"))

\* the messages of a finished submission were dropped: no list, no navigation
C20_Witness ==
    \E i \in Submissions :
        /\ sub[i].pc = "done"
        /\ sub[i].outcome = "dropped"
        /\ location = "/page"
        /\ sub[i].steps = << "preventDefault", "fetch", "json", "wrap",
                             "afterSubmit", "returned" >>

====
